---- MODULE Spec2Model ----
(***************************************************************************)
(* Flask-SuperAdmin: the Django form generator (model/backends/django/     *)
(* orm.py) and the MongoEngine model-admin adapter (model/backends/        *)
(* mongoengine/view.py) as state machines.                                 *)
(*                                                                         *)
(*   ConvertSpec  ModelConverterBase.convert called repeatedly on the      *)
(*                fields of one model, with the caller's field_args heap.  *)
(*   FormSpec     model_fields / model_form / ModelAdmin.get_form.         *)
(*   Spec         the adapter over a document store: save_model,           *)
(*                delete_models, get_list and the iteration of the         *)
(*                returned query.                                          *)
(*   CoerceSpec   coerce_nullbool of conv_NullBooleanField.                *)
(***************************************************************************)
EXTENDS Integers, Sequences, FiniteSets, TLC

VARIABLES
    model,       \* the native model class (immutable once declared)
    field_args,  \* the caller's field_args dict: name -> keyword overrides
    fout,        \* the last form-building call and what it returned
    store,       \* model.objects: the documents, in natural (insertion) order
    nextId,      \* the next ObjectId the store hands out
    out,         \* the last adapter call and what it returned
    value,       \* the input handed to coerce_nullbool
    coerced      \* what coerce_nullbool returned for it

vars == <<model, field_args, fout, store, nextId, out, value, coerced>>

(***************************************************************************)
(* Bounds                                                                  *)
(***************************************************************************)
\* longest validators / filters list a caller's field_args may grow to
MaxList == 3
\* longest include ("fields" / "only") list passed to a form builder
MaxInclude == 2
\* most documents ever saved to the store
MaxRows == 3
\* largest page index requested
MaxPage == 1
\* largest list_per_page configured
MaxPerPage == 2
\* most pks handed to one delete_models call
MaxPks == 2
\* longest text handed to coerce_nullbool
MaxStrLen == 3

(***************************************************************************)
(* Native fields and models (django/orm.py reads model._meta.fields,       *)
(* field.name, verbose_name, blank, max_length, choices, type(field)).     *)
(***************************************************************************)
\* field.max_length is None
NoMaxLength == -1

Names == {"id", "a", "b"}

\* type(field).__name__ values covered: table kinds, conv_<Kind> kinds,
\* a kind only an extra converter knows (JSONField), and a kind nothing
\* handles (TextField).
FieldKinds ==
    {"AutoField", "CharField", "FloatField", "ForeignKey", "TimeField",
     "DateTimeField", "DateField", "EmailField", "IPAddressField",
     "URLField", "USStateField", "NullBooleanField", "JSONField",
     "TextField"}

NativeField(n, k, bl, ml, ch) ==
    [name |-> n, verbose_name |-> n, kind |-> k, blank |-> bl,
     max_length |-> ml, choices |-> ch]

IdField == NativeField("id", "AutoField", TRUE, NoMaxLength, <<>>)

\* a model with the default primary key and one field of any metadata
UnitModels ==
    { [object_name |-> "Unit",
       fields |-> <<IdField, NativeField("a", k, bl, ml, ch)>>] :
        k \in FieldKinds, bl \in BOOLEAN, ml \in {NoMaxLength, 0, 2},
        ch \in {<<>>, <<"x", "y">>} }

\* models with several fields, in different declaration orders
DeclaredModels ==
    { [object_name |-> "User",
       fields |-> <<IdField,
                    NativeField("a", "CharField", FALSE, 2, <<>>),
                    NativeField("b", "EmailField", TRUE, NoMaxLength, <<>>)>>],
      [object_name |-> "Event",
       fields |-> <<NativeField("b", "DateTimeField", TRUE, NoMaxLength, <<>>),
                    IdField,
                    NativeField("a", "CharField", FALSE, 0, <<"x", "y">>)>>],
      [object_name |-> "Note",
       fields |-> <<IdField,
                    NativeField("b", "TextField", TRUE, NoMaxLength, <<>>),
                    NativeField("a", "JSONField", FALSE, NoMaxLength, <<>>)>>],
      [object_name |-> "Tag",
       fields |-> <<NativeField("b", "FloatField", FALSE, NoMaxLength, <<>>),
                    NativeField("a", "DateField", TRUE, NoMaxLength, <<>>),
                    IdField>>] }

(***************************************************************************)
(* The caller's field_args: per field name, either nothing or a dict of    *)
(* keyword overrides.  The lists in it are the caller's objects.           *)
(***************************************************************************)
Validator(v, m) == [v |-> v, max |-> m]
Optional == Validator("optional", NoMaxLength)
Required == Validator("required", NoMaxLength)

NoArgs == [keys |-> {}, validators |-> <<>>, filters |-> <<>>, label |-> ""]

Overrides ==
    { NoArgs,
      [NoArgs EXCEPT !.keys = {"label"}, !.label = "Custom"],
      [NoArgs EXCEPT !.keys = {"validators"}],
      [NoArgs EXCEPT !.keys = {"validators"}, !.validators = <<Optional>>],
      [NoArgs EXCEPT !.keys = {"validators", "filters"},
                     !.validators = <<Required>>],
      [NoArgs EXCEPT !.keys = {"filters"}] }

\* the field_args a caller starts with
FieldArgsChoices ==
    { fa \in [Names -> Overrides] :
        fa["id"] = NoArgs /\ fa["b"].keys \subseteq {"validators"}
                         /\ fa["b"].validators = <<>> }

(***************************************************************************)
(* ModelConverterBase / AdminModelConverter                                *)
(***************************************************************************)
\* DEFAULT_SIMPLE_CONVERSIONS: form field type -> native kinds
DEFAULT_SIMPLE_CONVERSIONS ==
    { <<"IntegerField", {"AutoField", "IntegerField", "SmallIntegerField",
                         "PositiveIntegerField", "PositiveSmallIntegerField"}>>,
      <<"DecimalField", {"DecimalField", "FloatField"}>>,
      <<"FileField", {"FileField", "FilePathField", "ImageField"}>>,
      <<"BooleanField", {"BooleanField"}>>,
      <<"StringField", {"CharField", "PhoneNumberField", "SlugField"}>>,
      <<"TextAreaField", {"StringField", "XMLField"}>> }

\* the extra_converters a caller may register: native kind -> converter
ExtraConverterChoices == { {}, {"JSONField"} }

\* AdminModelConverter.__init__: the converters dict, as the kinds it holds
\* and the form type each maps to ("Custom" for a caller's converter).
ConverterKinds(extra) ==
    UNION { p[2] : p \in DEFAULT_SIMPLE_CONVERSIONS } \cup extra

ConverterTarget(extra, kind) ==
    IF kind \in extra THEN "Custom"
    ELSE (CHOOSE p \in DEFAULT_SIMPLE_CONVERSIONS : kind \in p[2])[1]

\* the conv_<Kind> methods AdminModelConverter defines
HandlerKinds ==
    {"ForeignKey", "TimeField", "DateTimeField", "DateField", "EmailField",
     "IPAddressField", "URLField", "USStateField", "NullBooleanField"}

NoField ==
    [kind |-> "None", label |-> "", validators |-> <<>>, filters |-> <<>>,
     choices |-> <<>>, widget |-> "", extra |-> ""]

Descriptor(kind, kw, choices, widget, extra) ==
    [kind |-> kind, label |-> kw.label, validators |-> kw.validators,
     filters |-> kw.filters, choices |-> choices, widget |-> widget,
     extra |-> extra]

AppendValidator(kw, v) == [kw EXCEPT !.validators = Append(@, v)]
AppendFilter(kw, f) == [kw EXCEPT !.filters = Append(@, f)]

\* conv_<Kind>(model, field, kwargs): the kwargs after the handler's appends
HandlerKwargs(kind, kw) ==
    CASE kind \in {"TimeField", "DateTimeField"} -> AppendFilter(kw, "time")
      [] kind = "DateField" -> AppendFilter(kw, "date")
      [] kind = "EmailField" -> AppendValidator(kw, Validator("email", NoMaxLength))
      [] kind = "IPAddressField" ->
            AppendValidator(kw, Validator("ip_address", NoMaxLength))
      [] kind = "URLField" -> AppendValidator(kw, Validator("url", NoMaxLength))
      [] OTHER -> kw

\* conv_<Kind>(model, field, kwargs): the field it constructs
HandlerField(kind, kw) ==
    CASE kind = "ForeignKey" ->
            Descriptor("ModelSelectField", kw, <<>>, "ChosenSelectWidget", "rel.to")
      [] kind \in {"TimeField", "DateTimeField"} ->
            Descriptor("DateTimeField", kw, <<>>, "DateTimePickerWidget", "%H:%M:%S")
      [] kind = "DateField" ->
            Descriptor("DateField", kw, <<>>, "DatePickerWidget", "")
      [] kind \in {"EmailField", "IPAddressField", "URLField"} ->
            Descriptor("StringField", kw, <<>>, "", "")
      [] kind = "USStateField" ->
            Descriptor("SelectField", kw, <<"STATE_CHOICES">>, "", "")
      [] kind = "NullBooleanField" ->
            Descriptor("SelectField", kw, <<"Unknown", "Yes", "No">>, "",
                       "coerce_nullbool")

\* kwargs after "kwargs = {...}; if field_args: kwargs.update(field_args)"
BaseKwargs(field, fa) ==
    [label |-> IF "label" \in fa.keys THEN fa.label ELSE field.verbose_name,
     validators |-> IF "validators" \in fa.keys THEN fa.validators ELSE <<>>,
     filters |-> IF "filters" \in fa.keys THEN fa.filters ELSE <<>>]

\* CommonKwargs with the blank test dropped
CommonKwargs_NoOptional(field, fa) ==
    LET k0 == BaseKwargs(field, fa)
    IN  IF field.max_length # NoMaxLength /\ field.max_length > 0
        THEN AppendValidator(k0, Validator("length", field.max_length))
        ELSE k0

\* kwargs after the blank and max_length appends
CommonKwargs(field, fa) ==
    LET k0 == BaseKwargs(field, fa)
        k1 == IF field.blank THEN AppendValidator(k0, Optional) ELSE k0
    IN  IF field.max_length # NoMaxLength /\ field.max_length > 0
        THEN AppendValidator(k1, Validator("length", field.max_length))
        ELSE k1

\* Dispatch with the kind looked up before the choices
Dispatch_KindFirst(field, extra) ==
    IF field.kind \in ConverterKinds(extra) THEN "converters"
    ELSE IF field.choices # <<>> THEN "choices"
    ELSE IF field.kind \in HandlerKinds THEN "handler"
    ELSE "none"

\* which branch of convert's dispatch a field takes
Dispatch(field, extra) ==
    IF field.choices # <<>> THEN "choices"
    ELSE IF field.kind \in ConverterKinds(extra) THEN "converters"
    ELSE IF field.kind \in HandlerKinds THEN "handler"
    ELSE "none"

\* kwargs as convert leaves them (the handler's appends included)
FinalKwargs(field, fa, extra) ==
    IF Dispatch(field, extra) = "handler"
    THEN HandlerKwargs(field.kind, CommonKwargs(field, fa))
    ELSE CommonKwargs(field, fa)

\* what kwargs.update(field_args) aliased is the caller's own list: the
\* appends made through kwargs land in the caller's field_args entry
ArgsAfter(field, fa, extra) ==
    LET kw == FinalKwargs(field, fa, extra)
    IN  [fa EXCEPT !.validators = IF "validators" \in fa.keys
                                  THEN kw.validators ELSE @,
                   !.filters = IF "filters" \in fa.keys
                               THEN kw.filters ELSE @]

\* ModelConverterBase.convert(model, field, field_args): the returned field
Convert(field, fa, extra) ==
    LET kw == FinalKwargs(field, fa, extra)
        how == Dispatch(field, extra)
    IN  CASE how = "choices" ->
                Descriptor("SelectField", kw, field.choices,
                           "ChosenSelectWidget", "")
          [] how = "converters" ->
                Descriptor(ConverterTarget(extra, field.kind), kw, <<>>, "", "")
          [] how = "handler" -> HandlerField(field.kind, kw)
          [] OTHER -> NoField

(***************************************************************************)
(* model_fields / model_form / ModelAdmin.get_form                         *)
(***************************************************************************)
InSeq(x, s) == \E i \in 1..Len(s) : s[i] = x

\* Selected walking the include list instead of the model's fields
Selected_IncludeOrder(m, fields, exclude) ==
    LET Keep(f) == IF exclude # <<>> THEN ~InSeq(f.name, exclude) ELSE TRUE
        FieldNamed(n) == CHOOSE i \in 1..Len(m.fields) : m.fields[i].name = n
        Known(n) == \E i \in 1..Len(m.fields) : m.fields[i].name = n
        listed == SelectSeq(fields, Known)
    IN  IF fields # <<>>
        THEN [i \in 1..Len(listed) |-> m.fields[FieldNamed(listed[i])]]
        ELSE SelectSeq(m.fields, Keep)

\* "if fields: keep x[0] in fields  elif exclude: keep x[0] not in exclude"
Selected(m, fields, exclude) ==
    LET Keep(f) == IF fields # <<>> THEN InSeq(f.name, fields)
                   ELSE IF exclude # <<>> THEN ~InSeq(f.name, exclude)
                   ELSE TRUE
    IN  SelectSeq(m.fields, Keep)

\* the loop "for name, model_field in model_fields": converts each selected
\* field in turn, threading the caller's field_args through the calls
RECURSIVE FieldLoop(_, _, _, _)
FieldLoop(fs, fa, extra, acc) ==
    IF fs = <<>> THEN [dict |-> acc, field_args |-> fa]
    ELSE LET f == Head(fs)
             field == Convert(f, fa[f.name], extra)
             fa2 == [fa EXCEPT ![f.name] = ArgsAfter(f, fa[f.name], extra)]
         IN  FieldLoop(Tail(fs), fa2, extra,
                       IF field # NoField
                       THEN Append(acc, [name |-> f.name, field |-> field])
                       ELSE acc)

\* model_fields(model, fields, readonly_fields, exclude, field_args, converter)
\* with a converter supplied: the field dict (in insertion order) and the
\* caller's field_args as the call leaves them
model_fields(m, fields, exclude, fa, extra) ==
    FieldLoop(Selected(m, fields, exclude), fa, extra, <<>>)

\* "exclude = ([f for f in exclude] if exclude else []) + ['id']"
ForcedExclude(exclude) == exclude \o <<"id">>

\* model_form(model, base_class, fields, readonly_fields, exclude, field_args,
\* converter): type(object_name + 'Form', (base_class,), field_dict)
model_form(m, base, fields, exclude, fa, extra) ==
    LET r == model_fields(m, fields, ForcedExclude(exclude), fa, extra)
    IN  [name |-> m.object_name \o "Form", base |-> base, dict |-> r.dict,
         field_args |-> r.field_args]

\* ModelAdmin.allow_pk
allow_pk == FALSE

\* ModelAdmin.get_form(adding): model_form(self.model, BaseForm,
\* only=self.only, exclude=self.exclude, field_args=self.field_args,
\* converter=AdminModelConverter()); allow_pk is computed and not used
get_form(m, adding, only, exclude, fa) ==
    LET allowed == adding /\ allow_pk
    IN  model_form(m, "BaseForm", only, exclude, fa, {})

(***************************************************************************)
(* Inputs of the form-building calls                                       *)
(***************************************************************************)
\* include lists ("fields"): no list, or distinct names in any order
IncludeChoices ==
    { s \in UNION { [1..n -> Names] : n \in 0..MaxInclude } :
        \A i, j \in 1..Len(s) : i # j => s[i] # s[j] }

ExcludeChoices == { <<>>, <<"a">>, <<"b", "id">> }

\* (self.only, self.exclude) of an adapter
AdapterChoices ==
    { <<(<<>>), (<<>>)>>, <<(<<"id", "a">>), (<<>>)>>, <<(<<>>), (<<"a">>)>>,
      <<(<<"b">>), (<<"b">>)>> }

ListsWithin(fa) ==
    \A n \in Names : Len(fa[n].validators) <= MaxList
                  /\ Len(fa[n].filters) <= MaxList

Idle ==
    [op |-> "idle", index |-> 0, include |-> <<>>, exclude |-> <<>>,
     extra |-> {}, adding |-> FALSE, args |-> [n \in Names |-> NoArgs],
     name |-> "", dict |-> <<>>]

(***************************************************************************)
(* Actions: the form-building calls                                        *)
(***************************************************************************)
Untouched == UNCHANGED <<store, nextId, out, value, coerced>>

\* converter.convert(model, field, field_args.get(field.name))
ConvertCall ==
    \E i \in 1..Len(model.fields), extra \in ExtraConverterChoices :
        LET f == model.fields[i]
            fa2 == [field_args EXCEPT
                       ![f.name] = ArgsAfter(f, field_args[f.name], extra)]
        IN  /\ ListsWithin(fa2)
            /\ field_args' = fa2
            /\ fout' = [Idle EXCEPT !.op = "convert", !.index = i,
                          !.extra = extra, !.args = field_args,
                          !.dict = <<[name |-> f.name,
                                      field |-> Convert(f, field_args[f.name],
                                                        extra)]>>]
            /\ UNCHANGED model
            /\ Untouched

ModelFieldsCall ==
    \E fields \in IncludeChoices, exclude \in ExcludeChoices,
       extra \in ExtraConverterChoices :
        LET r == model_fields(model, fields, exclude, field_args, extra)
        IN  /\ ListsWithin(r.field_args)
            /\ field_args' = r.field_args
            /\ fout' = [Idle EXCEPT !.op = "model_fields", !.include = fields,
                          !.exclude = exclude, !.extra = extra,
                          !.dict = r.dict]
            /\ UNCHANGED model
            /\ Untouched

ModelFormCall ==
    \E fields \in IncludeChoices, exclude \in ExcludeChoices, extra \in {{}} :
        LET r == model_form(model, "Form", fields, exclude, field_args, extra)
        IN  /\ ListsWithin(r.field_args)
            /\ field_args' = r.field_args
            /\ fout' = [Idle EXCEPT !.op = "model_form", !.include = fields,
                          !.exclude = exclude, !.extra = extra,
                          !.name = r.name, !.dict = r.dict]
            /\ UNCHANGED model
            /\ Untouched

\* self.only and self.exclude are the adapter's configuration
GetFormCall ==
    \E adding \in BOOLEAN, cfg \in AdapterChoices :
        LET only == cfg[1]
            exclude == cfg[2]
            r == get_form(model, adding, only, exclude, field_args)
        IN  /\ ListsWithin(r.field_args)
            /\ field_args' = r.field_args
            /\ fout' = [Idle EXCEPT !.op = "get_form", !.include = only,
                          !.exclude = exclude, !.adding = adding,
                          !.name = r.name, !.dict = r.dict]
            /\ UNCHANGED model
            /\ Untouched

(***************************************************************************)
(* coerce_nullbool (conv_NullBooleanField)                                 *)
(***************************************************************************)
\* Python values: text (a sequence of characters), bool, int, None
PyStr(cs) == [t |-> "str", s |-> cs, b |-> FALSE, n |-> 0]
PyBool(b) == [t |-> "bool", s |-> <<>>, b |-> b, n |-> 0]
PyInt(n) == [t |-> "int", s |-> <<>>, b |-> FALSE, n |-> n]
PyNone == [t |-> "none", s |-> <<>>, b |-> FALSE, n |-> 0]
\* a raised ValueError
ValueError == [t |-> "error", s |-> <<>>, b |-> FALSE, n |-> 0]
\* coerce_nullbool has not been called
Pending == [t |-> "pending", s |-> <<>>, b |-> FALSE, n |-> 0]

TextTrue == <<"T", "r", "u", "e">>
TextFalse == <<"F", "a", "l", "s", "e">>
TextNone == <<"N", "o", "n", "e">>

Alphabet == {"0", "1", "-", "x"}

CoerceInputs ==
    { PyStr(cs) : cs \in UNION { [1..n -> Alphabet] : n \in 0..MaxStrLen } }
    \cup { PyStr(TextTrue), PyStr(TextFalse), PyStr(TextNone) }
    \cup { PyBool(TRUE), PyBool(FALSE), PyNone }
    \cup { PyInt(n) : n \in -1..2 }

DigitValue(c) ==
    CASE c = "0" -> 0 [] c = "1" -> 1 [] c = "2" -> 2 [] c = "3" -> 3
      [] c = "4" -> 4 [] c = "5" -> 5 [] c = "6" -> 6 [] c = "7" -> 7
      [] c = "8" -> 8 [] c = "9" -> 9 [] OTHER -> -1

RECURSIVE DigitsValue(_, _)
DigitsValue(cs, acc) ==
    IF cs = <<>> THEN acc
    ELSE DigitsValue(Tail(cs), 10 * acc + DigitValue(Head(cs)))

AllDigits(cs) == cs # <<>> /\ \A i \in 1..Len(cs) : DigitValue(cs[i]) >= 0

\* int(value): whether it is defined, and its value
IntDefined(v) ==
    CASE v.t = "str" ->
            IF v.s # <<>> /\ Head(v.s) = "-" THEN AllDigits(Tail(v.s))
            ELSE AllDigits(v.s)
      [] v.t \in {"bool", "int"} -> TRUE
      [] OTHER -> FALSE

IntOf(v) ==
    CASE v.t = "str" ->
            IF Head(v.s) = "-" THEN 0 - DigitsValue(Tail(v.s), 0)
            ELSE DigitsValue(v.s, 0)
      [] v.t = "bool" -> IF v.b THEN 1 ELSE 0
      [] OTHER -> v.n

\* d = {'None': None, None: None, 'True': True, 'False': False}
NullBoolTable ==
    { <<PyStr(TextNone), PyNone>>, <<PyNone, PyNone>>,
      <<PyStr(TextTrue), PyBool(TRUE)>>, <<PyStr(TextFalse), PyBool(FALSE)>> }

\* coerce_nullbool with bool(value) in place of bool(int(value))
coerce_nullbool_Truthy(v) ==
    IF \E p \in NullBoolTable : p[1] = v
    THEN (CHOOSE p \in NullBoolTable : p[1] = v)[2]
    ELSE CASE v.t = "str" -> PyBool(v.s # <<>>)
           [] v.t = "bool" -> PyBool(v.b)
           [] OTHER -> PyBool(v.n # 0)

\* coerce_nullbool(value)
coerce_nullbool(v) ==
    IF \E p \in NullBoolTable : p[1] = v
    THEN (CHOOSE p \in NullBoolTable : p[1] = v)[2]
    ELSE IF IntDefined(v) THEN PyBool(IntOf(v) # 0)
    ELSE ValueError

(***************************************************************************)
(* The MongoEngine adapter (mongoengine/view.py) over a document store     *)
(***************************************************************************)
\* self.page is None
NoPage == -1

\* values of the sortable column "name"
SortValues == {0, 1}

\* (sort_column, sort_desc) of self.sort; "" is no sort column
SortChoices == { <<"", FALSE>>, <<"name", FALSE>>, <<"name", TRUE>> }

\* get_pk(instance): str(instance.id)
get_pk(doc) == <<"oid", doc.id>>

\* a string that is no ObjectId
BadPk == <<"bad", 0>>

\* ObjectId(pk): raises InvalidId unless pk is the text of an ObjectId
ValidOid(pk) == pk[1] = "oid"
ObjectId(pk) == pk[2]

PkChoices == { <<"oid", i>> : i \in 1..(MaxRows + 1) } \cup {BadPk}

\* '%s%s' % ('-' if sort_desc else '', sort_column)
OrderKey(sort_column, sort_desc) ==
    <<IF sort_desc THEN "-" ELSE "", sort_column>>

NoQuery == [ordering |-> <<"", "">>, skip |-> 0, limit |-> 0]

\* the query get_list builds: order_by, skip, limit
BuildQuery(sort_column, sort_desc, page, list_per_page) ==
    LET q0 == NoQuery
        q1 == IF sort_column # ""
              THEN [q0 EXCEPT !.ordering = OrderKey(sort_column, sort_desc)]
              ELSE q0
        q2 == IF page # NoPage
              THEN [q1 EXCEPT !.skip = page * list_per_page]
              ELSE q1
    IN  [q2 EXCEPT !.limit = list_per_page]

\* whether row a sorts before row b under the ordering (ties keep their
\* natural order)
Before(a, b, ordering) ==
    IF ordering[1] = "-" THEN a[ordering[2]] > b[ordering[2]]
    ELSE a[ordering[2]] < b[ordering[2]]

\* insert row d into the ordered rows, behind every row it does not precede
RECURSIVE InsertRow(_, _, _)
InsertRow(d, rows, ordering) ==
    IF rows = <<>> THEN <<d>>
    ELSE IF Before(d, Head(rows), ordering) THEN <<d>> \o rows
    ELSE <<Head(rows)>> \o InsertRow(d, Tail(rows), ordering)

\* QuerySet.order_by: the rows in key order, or natural order with no key
RECURSIVE OrderBy(_, _)
OrderBy(rows, ordering) ==
    IF ordering[2] = "" \/ rows = <<>> THEN rows
    ELSE InsertRow(rows[Len(rows)],
                   OrderBy(SubSeq(rows, 1, Len(rows) - 1), ordering), ordering)

\* QuerySet.skip(n)
RECURSIVE Skip(_, _)
Skip(rows, n) ==
    IF n = 0 \/ rows = <<>> THEN rows ELSE Skip(Tail(rows), n - 1)

\* QuerySet.limit(n)
RECURSIVE Limit(_, _)
Limit(rows, n) ==
    IF n = 0 \/ rows = <<>> THEN <<>>
    ELSE <<Head(rows)>> \o Limit(Tail(rows), n - 1)

\* the rows a query yields when it is run against the documents
RunQuery(q, docs) == Limit(Skip(OrderBy(docs, q.ordering), q.skip), q.limit)

\* get_objects that finds nothing unless every pk exists
get_objects_AllOrNothing(pks, docs) ==
    IF \A pk \in pks : \E j \in 1..Len(docs) : docs[j].id = ObjectId(pk)
    THEN { docs[i] : i \in { j \in 1..Len(docs) :
                               docs[j].id \in { ObjectId(pk) : pk \in pks } } }
    ELSE {}

\* get_objects(*pks): in_bulk of the ObjectIds, the documents that exist
get_objects(pks, docs) ==
    { docs[i] : i \in { j \in 1..Len(docs) :
                          docs[j].id \in { ObjectId(pk) : pk \in pks } } }

\* the store after obj.delete() for each obj of objs
DeleteAll(objs, docs) ==
    LET Kept(d) == d \notin objs IN SelectSeq(docs, Kept)

CoerceIdle == value = PyNone /\ coerced = Pending

OutIdle ==
    [op |-> "idle", sort_column |-> "", sort_desc |-> FALSE, page |-> NoPage,
     list_per_page |-> 0, execute |-> FALSE, count |-> 0, query |-> NoQuery,
     rows |-> <<>>, iterated |-> FALSE, dirty |-> FALSE, pks |-> {},
     before |-> <<>>, ret |-> FALSE, raised |-> FALSE]

\* the caller holds a query get_list returned and has not iterated it yet
Held == out.op = "get_list" /\ ~out.iterated

FormIdle ==
    /\ model = [object_name |-> "", fields |-> <<>>]
    /\ field_args = [n \in Names |-> NoArgs]
    /\ fout = Idle

\* save_model(instance, form, adding=True): populate_obj, then save() of a
\* new document
SaveNew ==
    \E v \in SortValues :
        /\ nextId <= MaxRows
        /\ store' = Append(store, [id |-> nextId, name |-> v])
        /\ nextId' = nextId + 1
        /\ out' = IF Held THEN [out EXCEPT !.dirty = TRUE]
                  ELSE [OutIdle EXCEPT !.op = "save_model"]
        /\ UNCHANGED <<model, field_args, fout, value, coerced>>

\* save_model(instance, form): populate_obj, then save() of a fetched
\* document
SaveExisting ==
    \E i \in 1..Len(store), v \in SortValues :
        /\ store' = [store EXCEPT ![i].name = v]
        /\ out' = IF Held THEN [out EXCEPT !.dirty = TRUE]
                  ELSE [OutIdle EXCEPT !.op = "save_model"]
        /\ UNCHANGED <<nextId, model, field_args, fout, value, coerced>>

\* delete_models(*pks)
DeleteModels ==
    \E pks \in { ps \in SUBSET PkChoices : Cardinality(ps) <= MaxPks } :
        LET bad == \E pk \in pks : ~ValidOid(pk)
            after == IF bad THEN store
                     ELSE DeleteAll(get_objects(pks, store), store)
        IN  /\ store' = after
            /\ out' = IF Held THEN [out EXCEPT !.dirty = TRUE]
                      ELSE [OutIdle EXCEPT !.op = "delete_models",
                               !.pks = pks, !.before = store,
                               !.ret = ~bad, !.raised = bad]
            /\ UNCHANGED <<nextId, model, field_args, fout, value, coerced>>

\* get_list with the pagination applied to the index and not to the offset
get_list_SkipPages(sort_column, sort_desc, page, list_per_page, execute, docs) ==
    LET q == [BuildQuery(sort_column, sort_desc, page, list_per_page)
                EXCEPT !.skip = IF page # NoPage THEN page ELSE 0]
    IN  [count |-> Len(docs), query |-> q,
         rows |-> IF execute THEN RunQuery(q, docs) ELSE <<>>]

\* get_list with execute=True fetching before the pagination is applied
get_list_EagerAll(sort_column, sort_desc, page, list_per_page, execute, docs) ==
    LET q == BuildQuery(sort_column, sort_desc, page, list_per_page)
    IN  [count |-> Len(docs), query |-> q,
         rows |-> IF execute THEN OrderBy(docs, q.ordering) ELSE <<>>]

\* get_list(execute) under self.sort, self.page, self.list_per_page: the
\* count, the query, and the rows when it is executed at once
get_list(sort_column, sort_desc, page, list_per_page, execute, docs) ==
    LET q == BuildQuery(sort_column, sort_desc, page, list_per_page)
    IN  [count |-> Len(docs), query |-> q,
         rows |-> IF execute THEN RunQuery(q, docs) ELSE <<>>]

\* get_list(execute) with self.sort, self.page, self.list_per_page as set
\* for the request
GetList ==
    \E sort \in SortChoices, page \in {NoPage} \cup 0..MaxPage,
       list_per_page \in 1..MaxPerPage, execute \in BOOLEAN :
        LET r == get_list(sort[1], sort[2], page, list_per_page, execute, store)
        IN  /\ out' = [OutIdle EXCEPT
                          !.op = "get_list", !.sort_column = sort[1],
                          !.sort_desc = sort[2], !.page = page,
                          !.list_per_page = list_per_page,
                          !.execute = execute, !.count = r.count,
                          !.query = r.query, !.rows = r.rows,
                          !.iterated = execute]
            /\ UNCHANGED <<store, nextId, model, field_args, fout, value,
                           coerced>>

\* the caller iterates the query get_list(execute=False) returned
Iterate ==
    /\ Held
    /\ out' = [out EXCEPT !.rows = RunQuery(out.query, store),
                          !.iterated = TRUE]
    /\ UNCHANGED <<store, nextId, model, field_args, fout, value, coerced>>

Init ==
    /\ store = <<>>
    /\ nextId = 1
    /\ out = OutIdle
    /\ FormIdle
    /\ CoerceIdle

Next == SaveNew \/ SaveExisting \/ DeleteModels \/ GetList \/ Iterate

Spec == Init /\ [][Next]_vars

(***************************************************************************)
(* The specifications of the form builders                                 *)
(***************************************************************************)
AdapterIdle == store = <<>> /\ nextId = 1 /\ out = OutIdle

ConvertInit ==
    /\ model \in UnitModels \cup DeclaredModels
    /\ field_args \in FieldArgsChoices
    /\ fout = Idle
    /\ AdapterIdle
    /\ CoerceIdle

ConvertNext == ConvertCall

ConvertSpec == ConvertInit /\ [][ConvertNext]_vars

FormInit ==
    /\ model \in DeclaredModels
    /\ field_args \in { fa \in FieldArgsChoices :
                          fa["b"] = NoArgs /\ fa["a"].label = "" }
    /\ fout = Idle
    /\ AdapterIdle
    /\ CoerceIdle

FormNext == ModelFieldsCall \/ ModelFormCall \/ GetFormCall

FormSpec == FormInit /\ [][FormNext]_vars

(***************************************************************************)
(* The specification of coerce_nullbool                                    *)
(***************************************************************************)
\* the SelectField coerces a submitted value
Coerce ==
    /\ coerced = Pending
    /\ coerced' = coerce_nullbool(value)
    /\ UNCHANGED <<value, model, field_args, fout, store, nextId, out>>

CoerceInit ==
    /\ value \in CoerceInputs
    /\ coerced = Pending
    /\ FormIdle
    /\ AdapterIdle

CoerceNext == Coerce

CoerceSpec == CoerceInit /\ [][CoerceNext]_vars

(***************************************************************************)
(* Properties of convert (ConvertSpec)                                     *)
(***************************************************************************)
ConvertedField == model.fields[fout.index]
ConvertedTo == fout.dict[1].field
PassedArgs == fout.args[ConvertedField.name]
HasOptional(vs) == \E i \in 1..Len(vs) : vs[i].v = "optional"

\* C2: a native field with a non-empty choice set converts to a SelectField
\* carrying that choice set, whatever its kind.
C2_ChoicesWin ==
    (fout.op = "convert" /\ ConvertedField.choices # <<>>) =>
        /\ ConvertedTo.kind = "SelectField"
        /\ ConvertedTo.choices = ConvertedField.choices

C2_Witness ==
    /\ fout.op = "convert"
    /\ ConvertedField.choices # <<>>
    /\ ConvertedField.kind = "CharField"
    /\ ConvertedTo.kind = "SelectField"

\* C3 as stated: the converted field's validators hold an "optional" exactly
\* when the native field is blank, with or without a field_args override.
C3_OptionalIffBlank ==
    (fout.op = "convert" /\ ConvertedTo # NoField) =>
        (HasOptional(ConvertedTo.validators) <=> ConvertedField.blank)

\* C3 amended: the converted field's validators hold an "optional" exactly
\* when the native field is blank or the validators list the caller passed in
\* field_args already held one.
C3_OptionalIffBlankOrPassed ==
    (fout.op = "convert" /\ ConvertedTo # NoField) =>
        (HasOptional(ConvertedTo.validators) <=>
            \/ ConvertedField.blank
            \/ /\ "validators" \in PassedArgs.keys
               /\ HasOptional(PassedArgs.validators))

C3_Witness ==
    /\ fout.op = "convert"
    /\ ConvertedTo # NoField
    /\ ~ConvertedField.blank
    /\ "validators" \in PassedArgs.keys
    /\ HasOptional(PassedArgs.validators)
    /\ HasOptional(ConvertedTo.validators)

\* C10: a convert call leaves the caller's field_args as they were, and a
\* call with the same field and converter as the call before it returns the
\* same validators and filters.
C10_NoSideEffect ==
    [][ fout'.op = "convert" =>
          /\ field_args' = field_args
          /\ (fout.op = "convert" /\ fout'.index = fout.index
                                  /\ fout'.extra = fout.extra) =>
                /\ fout'.dict[1].field.validators = ConvertedTo.validators
                /\ fout'.dict[1].field.filters = ConvertedTo.filters ]_vars

(***************************************************************************)
(* Properties of model_fields and model_form (FormSpec)                    *)
(***************************************************************************)
DictNames == [i \in 1..Len(fout.dict) |-> fout.dict[i].name]
Declared(n) == \E i \in 1..Len(model.fields) : model.fields[i].name = n
DeclIndex(n) == CHOOSE i \in 1..Len(model.fields) : model.fields[i].name = n
HasConversion(f, extra) ==
    \/ f.choices # <<>>
    \/ f.kind \in HandlerKinds
    \/ f.kind \in extra
    \/ \E p \in DEFAULT_SIMPLE_CONVERSIONS : f.kind \in p[2]

\* C1: the form type model_form (and get_form) returns never has the
\* primary key "id" among its fields.
C1_NoPrimaryKey ==
    fout.op \in {"model_form", "get_form"} => ~InSeq("id", DictNames)

Key(d) == d.name
InStore(d) == \E i \in 1..Len(store) : store[i] = d
PlaceOf(d) == CHOOSE i \in 1..Len(store) : store[i] = d

\* whether document e comes before document d in the listing order of the
\* last get_list: by key when a sort column is set, by place otherwise
ListedBefore(e, d) ==
    IF out.sort_column = "" THEN PlaceOf(e) < PlaceOf(d)
    ELSE \/ (~out.sort_desc /\ Key(e) < Key(d))
         \/ (out.sort_desc /\ Key(e) > Key(d))
         \/ (Key(e) = Key(d) /\ PlaceOf(e) < PlaceOf(d))

\* the zero-based position of document d in the listing order
Position(d) ==
    Cardinality({ i \in 1..Len(store) : ListedBefore(store[i], d) })

Min(a, b) == IF a < b THEN a ELSE b

\* the rows of a finished get_list were read from the store as it is now
Fresh == out.op = "get_list" /\ out.iterated /\ ~out.dirty

\* C5: with a page index, get_list counts every row, and its rows are the
\* sorted rows at positions page * size up to (page + 1) * size, cut at the
\* end of the set.
C5_PageSlice ==
    (Fresh /\ out.page # NoPage) =>
        LET lo == out.page * out.list_per_page
            hi == Min(lo + out.list_per_page, Len(store))
        IN  /\ out.count = Len(store)
            /\ Len(out.rows) = IF hi > lo THEN hi - lo ELSE 0
            /\ \A i \in 1..Len(out.rows) :
                  /\ InStore(out.rows[i])
                  /\ Position(out.rows[i]) = lo + i - 1

C5_Witness ==
    /\ Fresh
    /\ out.page = 1
    /\ out.list_per_page = 2
    /\ out.count = 3
    /\ Len(out.rows) = 1
    /\ out.sort_column = "name"
    /\ Position(out.rows[1]) = 2
    /\ out.rows[1] # store[3]

\* C6: with no page index, get_list returns every row: as many rows as it
\* counted.
C6_NoPageReturnsAll ==
    (Fresh /\ out.page = NoPage) => Len(out.rows) = out.count

\* C7: delete_models with existing and missing pks raises nothing, removes
\* every document it names, keeps every other document, and returns true.
C7_DeleteTolerant ==
    (out.op = "delete_models" /\ \A pk \in out.pks : ValidOid(pk)) =>
        /\ ~out.raised
        /\ out.ret
        /\ \A i \in 1..Len(out.before) :
              InStore(out.before[i]) <=> get_pk(out.before[i]) \notin out.pks
        /\ \A i \in 1..Len(store) :
              \E j \in 1..Len(out.before) : out.before[j] = store[i]

C7_Witness ==
    /\ out.op = "delete_models"
    /\ \A pk \in out.pks : ValidOid(pk)
    /\ \E pk \in out.pks :
          \A i \in 1..Len(out.before) : get_pk(out.before[i]) # pk
    /\ \E pk \in out.pks :
          \E i \in 1..Len(out.before) : get_pk(out.before[i]) = pk
    /\ Len(store) = 1
    /\ Len(out.before) = 2
    /\ out.ret

\* C8: iterating the query of get_list(execute=False), with no write since
\* the call, gives the count and the rows get_list(execute=True) gives.
C8_LazyEqualsEager ==
    (Fresh /\ ~out.execute) =>
        LET eager == get_list(out.sort_column, out.sort_desc, out.page,
                              out.list_per_page, TRUE, store)
        IN  /\ out.count = eager.count
            /\ out.rows = eager.rows

C8_Witness ==
    /\ Fresh
    /\ ~out.execute
    /\ out.query.skip > 0
    /\ out.sort_desc
    /\ out.count = 3
    /\ Len(out.rows) = 1

(***************************************************************************)
(* Properties of coerce_nullbool (CoerceSpec)                              *)
(***************************************************************************)
\* the texts and numbers int() accepts, and whether the integer is not zero
DecimalDigits == {"0", "1", "2", "3", "4", "5", "6", "7", "8", "9"}
IsIntegerText(cs) ==
    LET ds == IF cs # <<>> /\ cs[1] = "-" THEN Tail(cs) ELSE cs
    IN  ds # <<>> /\ \A i \in 1..Len(ds) : ds[i] \in DecimalDigits
NotZero(v) ==
    CASE v.t = "str" -> \E i \in 1..Len(v.s) : v.s[i] \in DecimalDigits \ {"0"}
      [] v.t = "int" -> v.n # 0
      [] OTHER -> v.b
Listed(v) ==
    v \in {PyStr(TextTrue), PyBool(TRUE), PyStr(TextFalse), PyBool(FALSE),
           PyStr(TextNone), PyNone}

\* C9: "True", True, "False", False, "None", None coerce to True, True,
\* False, False, None, None; any other input int() accepts coerces to
\* int(v) != 0.
C9_TriState ==
    coerced # Pending =>
        /\ value \in {PyStr(TextTrue), PyBool(TRUE)} => coerced = PyBool(TRUE)
        /\ value \in {PyStr(TextFalse), PyBool(FALSE)} =>
              coerced = PyBool(FALSE)
        /\ value \in {PyStr(TextNone), PyNone} => coerced = PyNone
        /\ (~Listed(value) /\ (value.t = "int" \/ IsIntegerText(value.s))) =>
              coerced = PyBool(NotZero(value))

C9_Witness ==
    /\ value = PyStr(<<"-", "0", "1">>)
    /\ coerced = PyBool(TRUE)

====
